---- MODULE Spec2Model ----
(***************************************************************************)
(* Model of Tally::LwsWebSocketClient (TallyWebSocketImpl.cpp): the        *)
(* session state machine, its send queue and its translation of the        *)
(* libwebsockets events delivered inside Poll.                              *)
(*                                                                         *)
(* The libwebsockets engine is the environment: every call the session     *)
(* makes into it is recorded in lwsTrace, and the outcome of a call that   *)
(* can fail is an input of the action that makes the call.                 *)
(***************************************************************************)
EXTENDS Integers, Sequences, FiniteSets, TLC

\* ------------------------------------------------------------------ bounds
\* Spec: messages send* may accept, and lws contexts Connect may create
MaxSends == 1
MaxConnects == 2
\* SpecFifo: the same two limits
MaxFifoSends == 3
MaxFifoConnects == 2
\* SpecLive: the same two limits
MaxLiveSends == 2
MaxLiveConnects == 1
\* SpecThreads: the same two limits
MaxThreadSends == 2
MaxThreadConnects == 1
\* SpecRead: lws contexts Connect may create
MaxLifeConnects == 2
MaxRecvConnects == 2
MaxSetterConnects == 1
MaxVariantConnects == 1
MaxStampSends == 2
MaxStampConnects == 2
MaxRecoverConnects == 2
\* SpecCaller: the caller thread's accepted sends and connects
MaxCallerSends == 1
MaxCallerConnects == 2
MaxReadConnects == 2
\* SpecClose: the same two limits
MaxCloseSends == 1
MaxCloseConnects == 1

\* ------------------------------------------------------- program constants
\* padding libwebsockets wants in front of every buffer given to lws_write
LWS_PRE == 16
\* default close code of Disconnect
DefaultCloseCode == 1000

ConnectionState == {"Disconnected", "Connecting", "Connected", "Disconnecting", "Error"}
MessageType == {"Text", "Binary"}

\* nullptr for m_context and m_wsi; contexts and handles are 1, 2, ...
nullptr == 0

\* ------------------------------------------------------------------ inputs
Urls == {"invalid-url", "ws://localhost:9999"}
WebSocketConfig == [url : Urls, subprotocol : {""}]
DefaultConfig == [url |-> "", subprotocol |-> ""]

\* std::string arguments of SendText
TextInputs == {<< >>, <<104, 105>>}
\* (data, length) arguments of SendBinary; isNull marks data == nullptr
BinaryInputs == {[isNull |-> TRUE,  data |-> << >>,      length |-> 0],
                 [isNull |-> FALSE, data |-> <<1>>,      length |-> 0],
                 [isNull |-> FALSE, data |-> <<0, 255>>, length |-> 2]}
\* frames the driver may report on LWS_CALLBACK_CLIENT_RECEIVE
RxFrames == {[data |-> <<112>>, binary |-> FALSE],
             [data |-> <<0, 255>>, binary |-> TRUE]}
\* the `in` text of LWS_CALLBACK_CLIENT_CONNECTION_ERROR (<< >> is in == NULL)
ErrorTexts == {<< >>, <<"refused">>}
\* std::function values given to the setters; 0 is the empty std::function
Callbacks == {0, 1}
\* the same with two different callbacks, so that one can replace the other
MessageCallbacks == {0, 1, 2}
\* a callback whose body calls SetMessageCallback(nullptr) on its own session
CallsSetter == 3
VariantCallbacks == {0, 1, CallsSetter}
\* what locking a std::mutex its own thread holds may do: never return, or
\* throw std::system_error out of the callback
RelockOutcomes == {"deadlock", "system_error"}
\* values lws_service may report
ServiceResults == {0, -1}
\* (code, reason) arguments of Disconnect: the defaults and a going-away close
DefaultClose == {[code |-> DefaultCloseCode, reason |-> ""]}
CloseArgs == DefaultClose \cup {[code |-> 1001, reason |-> "Going away"]}
\* the two frames SpecFifo and SpecLive queue
FifoTexts == {<< >>}
FifoBinaries == {[isNull |-> FALSE, data |-> <<0, 255>>, length |-> 2]}
\* the configuration SpecLive connects with
LiveConfigs == {[url |-> "ws://localhost:9999", subprotocol |-> ""]}

VARIABLES
    m_state,            \* std::atomic<ConnectionState>
    m_context,          \* struct lws_context*
    m_wsi,              \* struct lws*
    m_config,           \* WebSocketConfig
    m_sendQueue,        \* std::queue<QueuedMessage>
    m_stateCallback,    \* StateCallback
    m_messageCallback,  \* MessageCallback
    lws,                \* the driver: live contexts and the handle of the newest one
    lastCall,           \* the operation that produced this state, with the bool (ret)
                        \* or the int (res) it returned
    cbTrace,            \* callbacks invoked by that operation, in order
    cbSeen,             \* what each of those callbacks found when it was invoked:
                        \* the mutexes its caller held, m_state and m_wsi
    stTrace,            \* values that operation stored in m_state, in order
    lwsTrace,           \* driver calls made by that operation, in order
    accTrace,           \* accesses of that operation to the two callback members:
                        \* which one, read or write, and the mutexes held
    sendT,              \* the call a second thread is in the middle of: where it
                        \* stands and, for send*, the message it has built
    pollT,              \* where the polling thread stands inside the Receive case
    accepted,           \* history: messages send* accepted, in order
    written             \* history: messages handed to lws_write, in order

vars == <<m_state, m_context, m_wsi, m_config, m_sendQueue, m_stateCallback,
          m_messageCallback, lws, lastCall, cbTrace, cbSeen, stTrace, lwsTrace,
          accTrace, sendT, pollT, accepted, written>>

\* ----------------------------------------------------------------- helpers
Zeros(n) == [i \in 1..n |-> 0]

\* the n bytes starting at offset off (0-based) of a buffer
Bytes(buf, off, n) == [i \in 1..n |-> buf[off + i]]

\* The object as one record, with the traces of the operation about to run empty.
\* variant is the definition of SetState and of the Receive case in force (the
\* file holds two); frozen holds the object as it stood when the running
\* thread got stuck inside a callback, if it did.
This ==
    [m_state |-> m_state, m_context |-> m_context, m_wsi |-> m_wsi,
     m_config |-> m_config, m_sendQueue |-> m_sendQueue,
     m_stateCallback |-> m_stateCallback, m_messageCallback |-> m_messageCallback,
     lws |-> lws, cbTrace |-> << >>, cbSeen |-> << >>, stTrace |-> << >>,
     lwsTrace |-> << >>, accTrace |-> << >>, held |-> {},
     variant |-> 1, frozen |-> << >>,
     accepted |-> accepted, written |-> written]

\* The state a step leaves behind.
Store(M, call) ==
    /\ m_state' = M.m_state
    /\ m_context' = M.m_context
    /\ m_wsi' = M.m_wsi
    /\ m_config' = M.m_config
    /\ m_sendQueue' = M.m_sendQueue
    /\ m_stateCallback' = M.m_stateCallback
    /\ m_messageCallback' = M.m_messageCallback
    /\ lws' = M.lws
    /\ cbTrace' = M.cbTrace
    /\ cbSeen' = M.cbSeen
    /\ stTrace' = M.stTrace
    /\ lwsTrace' = M.lwsTrace
    /\ accTrace' = M.accTrace
    /\ accepted' = M.accepted
    /\ written' = M.written
    /\ lastCall' = call

\* The state an operation leaves behind that ran from its call to its return
\* with no other thread in between.
Return(M, call) == Store(M, call) /\ UNCHANGED <<sendT, pollT>>

\* std::lock_guard on one of the two mutexes: M.held is what the running
\* operation holds
Lock(M, mutex) == [M EXCEPT !.held = @ \cup {mutex}]

Unlock(M, mutex) == [M EXCEPT !.held = @ \ {mutex}]

\* a read or a write of m_messageCallback or m_stateCallback
Access(M, slot, kind) ==
    [M EXCEPT !.accTrace = Append(@, [slot |-> slot, kind |-> kind, held |-> M.held])]

\* callback(...): the call is recorded with what the callee finds. The body of
\* CallsSetter then calls SetMessageCallback(nullptr), which locks
\* m_callbackMutex: held by the calling thread already, the thread goes no
\* further.
Invoke(M, entry) ==
    LET M1 == [M EXCEPT !.cbTrace = Append(@, entry),
                        !.cbSeen = Append(@, [held |-> M.held, m_state |-> M.m_state,
                                              m_wsi |-> M.m_wsi])]
    IN  IF M.frozen # << >>
        THEN M
        ELSE IF entry.fn # CallsSetter
        THEN M1
        ELSE IF "m_callbackMutex" \in M1.held
        THEN [M1 EXCEPT !.frozen = <<M1>>]
        ELSE [Access(Lock(M1, "m_callbackMutex"), "m_messageCallback", "write")
                 EXCEPT !.m_messageCallback = 0, !.held = M1.held]

\* -------------------------------------------------------------- the driver
\* lws.live: contexts created and not destroyed; lws.created: contexts ever
\* created; lws.status / writable / close: the handle of the newest context.
LwsCalled(M, entry) == [M EXCEPT !.lwsTrace = Append(@, entry)]

\* lws_create_context: a fresh context, or NULL
lws_create_context(M, ok) ==
    LET ctx == IF ok THEN M.lws.created + 1 ELSE nullptr
        M1 == LwsCalled(M, [fn |-> "lws_create_context", res |-> ctx])
    IN  IF ok
        THEN [M1 EXCEPT !.lws = [live |-> M.lws.live \cup {ctx}, created |-> ctx,
                                 status |-> "none", writable |-> FALSE, close |-> FALSE]]
        ELSE M1

lws_context_destroy(M, ctx) ==
    LET M1 == LwsCalled(M, [fn |-> "lws_context_destroy", ctx |-> ctx])
    IN  [M1 EXCEPT !.lws.live = @ \ {ctx},
                   !.lws.status = IF ctx = M.lws.created THEN "none" ELSE @,
                   !.lws.writable = IF ctx = M.lws.created THEN FALSE ELSE @,
                   !.lws.close = IF ctx = M.lws.created THEN FALSE ELSE @]

lws_parse_uri(M, url, ok) ==
    LwsCalled(M, [fn |-> "lws_parse_uri", url |-> url, res |-> IF ok THEN 0 ELSE 1])

\* lws_client_connect_via_info: the handle of the context, or NULL
lws_client_connect_via_info(M, ctx, ok) ==
    LET wsi == IF ok THEN ctx ELSE nullptr
        M1 == LwsCalled(M, [fn |-> "lws_client_connect_via_info", ctx |-> ctx, res |-> wsi])
    IN  IF ok THEN [M1 EXCEPT !.lws.status = "connecting"] ELSE M1

\* lws_callback_on_writable: one pending request per handle, however often asked
lws_callback_on_writable(M, wsi) ==
    LET M1 == LwsCalled(M, [fn |-> "lws_callback_on_writable", wsi |-> wsi])
    IN  [M1 EXCEPT !.lws.writable = TRUE]

lws_close_reason(M, wsi, code, reason) ==
    LET M1 == LwsCalled(M, [fn |-> "lws_close_reason", wsi |-> wsi,
                            code |-> code, reason |-> reason])
    IN  [M1 EXCEPT !.lws.close = TRUE]

\* lws_write: len bytes of buf from offset off, as a frame of kind wp
lws_write(M, wsi, buf, off, len, wp, ok) ==
    LET frame == [data |-> Bytes(buf, off, len),
                  type |-> IF wp = "LWS_WRITE_TEXT" THEN "Text" ELSE "Binary"]
        M1 == LwsCalled(M, [fn |-> "lws_write", wsi |-> wsi, data |-> frame.data,
                            wp |-> wp, res |-> IF ok THEN len ELSE -1])
    IN  [M1 EXCEPT !.written = Append(@, frame)]

\* ------------------------------------------------------------- the session
LwsWebSocketClient_StartsConnecting ==
    [m_context |-> nullptr, m_wsi |-> nullptr, m_state |-> "Connecting",
     m_config |-> DefaultConfig, m_messageCallback |-> 0, m_stateCallback |-> 0,
     m_sendQueue |-> << >>]

\* the member initialisers of LwsWebSocketClient
LwsWebSocketClient ==
    [m_context |-> nullptr, m_wsi |-> nullptr, m_state |-> "Disconnected",
     m_config |-> DefaultConfig, m_messageCallback |-> 0, m_stateCallback |-> 0,
     m_sendQueue |-> << >>]

SetState_Silent(M, newState, error) ==
    [M EXCEPT !.m_state = newState, !.stTrace = Append(@, newState)]

\* the callback called before the lock_guard's scope ends
SetState_InvokesUnderLock(M, newState, error) ==
    LET M1 == [M EXCEPT !.m_state = newState, !.stTrace = Append(@, newState)]
        M2 == Lock(M1, "m_callbackMutex")
        callback == M2.m_stateCallback
    IN  IF callback # 0
        THEN Unlock(Invoke(M2, [cb |-> "state", fn |-> callback,
                                state |-> newState, error |-> error]),
                    "m_callbackMutex")
        ELSE Unlock(M2, "m_callbackMutex")

\* the second definition of SetState: the lock_guard lives to the end of the
\* function, the member is tested and called under it
SetStateUnderLock(M, newState, error) ==
    LET M1 == [M EXCEPT !.m_state = newState, !.stTrace = Append(@, newState)]
        M2 == Access(Lock(M1, "m_callbackMutex"), "m_stateCallback", "read")
    IN  IF M2.m_stateCallback # 0
        THEN Unlock(Invoke(M2, [cb |-> "state", fn |-> M2.m_stateCallback,
                                state |-> newState, error |-> error]),
                    "m_callbackMutex")
        ELSE Unlock(M2, "m_callbackMutex")

\* the first definition
SetStateSnapshot(M, newState, error) ==
    LET M1 == [M EXCEPT !.m_state = newState, !.stTrace = Append(@, newState)]
        M2 == Access(Lock(M1, "m_callbackMutex"), "m_stateCallback", "read")
        callback == M2.m_stateCallback
        M3 == Unlock(M2, "m_callbackMutex")
    IN  IF callback # 0
        THEN Invoke(M3, [cb |-> "state", fn |-> callback,
                         state |-> newState, error |-> error])
        ELSE M3

\* error is << >> for nullptr, <<e>> for a pointer to the WebSocketError e
SetState(M, newState, error) ==
    IF M.variant = 2
    THEN SetStateUnderLock(M, newState, error)
    ELSE SetStateSnapshot(M, newState, error)

\* the context forgotten, never handed to lws_context_destroy
Cleanup_NoDestroy(M) ==
    LET M1 == IF M.m_wsi # nullptr THEN [M EXCEPT !.m_wsi = nullptr] ELSE M
        M2 == IF M1.m_context # nullptr THEN [M1 EXCEPT !.m_context = nullptr] ELSE M1
    IN  [M2 EXCEPT !.m_state = "Disconnected", !.stTrace = Append(@, "Disconnected")]

\* the queue emptied along with the connection
Cleanup_ClearsQueue(M) ==
    LET M1 == IF M.m_wsi # nullptr THEN [M EXCEPT !.m_wsi = nullptr] ELSE M
        M2 == IF M1.m_context # nullptr
              THEN [lws_context_destroy(M1, M1.m_context) EXCEPT !.m_context = nullptr]
              ELSE M1
    IN  [M2 EXCEPT !.m_state = "Disconnected", !.stTrace = Append(@, "Disconnected"),
                   !.m_sendQueue = << >>]

Cleanup_Reports(M) ==
    LET M1 == IF M.m_wsi # nullptr THEN [M EXCEPT !.m_wsi = nullptr] ELSE M
        M2 == IF M1.m_context # nullptr
              THEN [lws_context_destroy(M1, M1.m_context) EXCEPT !.m_context = nullptr]
              ELSE M1
    IN  SetState(M2, "Disconnected", << >>)

Cleanup(M) ==
    LET M1 == IF M.m_wsi # nullptr THEN [M EXCEPT !.m_wsi = nullptr] ELSE M
        M2 == IF M1.m_context # nullptr
              THEN [lws_context_destroy(M1, M1.m_context) EXCEPT !.m_context = nullptr]
              ELSE M1
    IN  [M2 EXCEPT !.m_state = "Disconnected", !.stTrace = Append(@, "Disconnected")]

IsConnected_NotDisconnected == m_state # "Disconnected"

IsConnected == m_state = "Connected"

GetState == m_state

\* The frame a QueuedMessage carries: what lies behind its LWS_PRE padding.
Payload(msg) == Bytes(msg.data, LWS_PRE, Len(msg.data) - LWS_PRE)

MakeMessage_NoOffset(type, src, n) ==
    [data |-> [i \in 1..(LWS_PRE + n) |-> IF i <= n THEN src[i] ELSE 0], type |-> type]

\* QueuedMessage built by SendText / SendBinary: msg.data.resize(LWS_PRE + n)
\* and memcpy(msg.data.data() + LWS_PRE, src, n)
MakeMessage(type, src, n) ==
    [data |-> Zeros(LWS_PRE) \o [i \in 1..n |-> src[i]], type |-> type]

ConnectStarted_AlreadyConnected(M) ==
    [M |-> [M EXCEPT !.m_state = "Connected"], ret |-> TRUE]

\* the handshake has been started: return true
ConnectStarted(M) == [M |-> M, ret |-> TRUE]

\* Connect once the state is known to be Disconnected; ctxOk, uriOk and wsiOk
\* are the outcomes of the three driver calls
ConnectAttempt(M, config, ctxOk, uriOk, wsiOk) ==
    LET M1 == SetState([M EXCEPT !.m_config = config], "Connecting", << >>)
        M2 == lws_create_context(M1, ctxOk)
        M3 == [M2 EXCEPT !.m_context = IF ctxOk THEN M2.lws.created ELSE nullptr]
    IN  IF M3.m_context = nullptr
        THEN [M |-> SetState(M3, "Error",
                             <<[code |-> -1, message |-> "Failed to create lws context"]>>),
              ret |-> FALSE]
        ELSE
          LET M4 == lws_parse_uri(M3, config.url, uriOk)
          IN  IF ~uriOk
              THEN [M |-> Cleanup(SetState(M4, "Error",
                               <<[code |-> -1, message |-> "Failed to parse URL"]>>)),
                    ret |-> FALSE]
              ELSE
                LET M5 == lws_client_connect_via_info(M4, M4.m_context, wsiOk)
                    M6 == [M5 EXCEPT !.m_wsi = IF wsiOk THEN M4.m_context ELSE nullptr]
                IN  IF M6.m_wsi = nullptr
                    THEN [M |-> Cleanup(SetState(M6, "Error",
                               <<[code |-> -1,
                                  message |-> "Failed to create client connection"]>>)),
                          ret |-> FALSE]
                    ELSE ConnectStarted(M6)

ConnectBody_NoStateCheck(M, config, ctxOk, uriOk, wsiOk) ==
    ConnectAttempt(M, config, ctxOk, uriOk, wsiOk)

ConnectBody(M, config, ctxOk, uriOk, wsiOk) ==
    IF M.m_state # "Disconnected"
    THEN [M |-> M, ret |-> FALSE]
    ELSE ConnectAttempt(M, config, ctxOk, uriOk, wsiOk)

\* the driver calls of Connect run in order, so at most one of them fails
Connect(config, ctxOk, uriOk, wsiOk) ==
    /\ ~ctxOk => uriOk
    /\ ~uriOk => wsiOk
    /\ LET r == ConnectBody(This, config, ctxOk, uriOk, wsiOk)
       IN  Return(r.M, [op |-> "Connect", ret |-> r.ret])

\* Disconnect once the state is known not to be Disconnected
DisconnectRequest(M, code, reason) ==
    LET M1 == SetState(M, "Disconnecting", << >>)
    IN  IF M1.m_wsi # nullptr
        THEN lws_callback_on_writable(
                 lws_close_reason(M1, M1.m_wsi, code, reason), M1.m_wsi)
        ELSE M1

DisconnectBody_NoStateCheck(M, code, reason) == DisconnectRequest(M, code, reason)

DisconnectBody_ImmediateCleanup(M, code, reason) ==
    IF M.m_state = "Disconnected"
    THEN M
    ELSE Cleanup(DisconnectRequest(M, code, reason))

DisconnectBody(M, code, reason) ==
    IF M.m_state = "Disconnected"
    THEN M
    ELSE DisconnectRequest(M, code, reason)

Disconnect(code, reason) ==
    Return(DisconnectBody(This, code, reason),
           [op |-> "Disconnect", code |-> code, reason |-> reason])

\* the part SendText and SendBinary share once the message is built; given is
\* the payload as the caller passed it, kept for the history only
Enqueue(M, msg, given) ==
    LET M0 == Lock(M, "m_queueMutex")
        M1 == Unlock([M0 EXCEPT !.m_sendQueue = Append(@, msg),
                                !.accepted = Append(@, [data |-> given,
                                                        type |-> msg.type])],
                     "m_queueMutex")
    IN  IF M1.m_wsi # nullptr THEN lws_callback_on_writable(M1, M1.m_wsi) ELSE M1

SendTextBody(M, message) ==
    IF M.m_state # "Connected"
    THEN [M |-> M, ret |-> FALSE]
    ELSE [M |-> Enqueue(M, MakeMessage("Text", message, Len(message)), message),
          ret |-> TRUE]

SendText(message) ==
    LET r == SendTextBody(This, message)
    IN  Return(r.M, [op |-> "SendText", ret |-> r.ret])

SendBinaryBody_NoStateCheck(M, data, length) ==
    [M |-> Enqueue(M, MakeMessage("Binary", data, length), SubSeq(data, 1, length)),
     ret |-> TRUE]

SendBinaryBody(M, data, length) ==
    IF M.m_state # "Connected"
    THEN [M |-> M, ret |-> FALSE]
    ELSE [M |-> Enqueue(M, MakeMessage("Binary", data, length), SubSeq(data, 1, length)),
          ret |-> TRUE]

SendBinary(in) ==
    LET r == SendBinaryBody(This, in.data, in.length)
    IN  Return(r.M, [op |-> "SendBinary", ret |-> r.ret])

\* SendText and SendBinary on a thread of their own, Poll running on another:
\* the steps between which the other thread may run. First the state check
\* and the building of the message,
SendBegin(type, src, n) ==
    /\ sendT.pc = "idle"
    /\ IF ~IsConnected
       THEN /\ Store(This, [op |-> "Send" \o type, ret |-> FALSE])
            /\ sendT' = sendT
            /\ pollT' = pollT
       ELSE /\ Store(This, [op |-> "Send" \o type, step |-> "IsConnected"])
            /\ sendT' = [pc |-> "built", msg |-> MakeMessage(type, src, n),
                         given |-> SubSeq(src, 1, n)]
            /\ pollT' = pollT

\* then the push under m_queueMutex,
SendPush ==
    /\ sendT.pc = "built"
    /\ LET M0 == Lock(This, "m_queueMutex")
           M1 == Unlock([M0 EXCEPT !.m_sendQueue = Append(@, sendT.msg),
                                   !.accepted = Append(@, [data |-> sendT.given,
                                                           type |-> sendT.msg.type])],
                        "m_queueMutex")
       IN  Store(M1, [op |-> "Send" \o sendT.msg.type, step |-> "push"])
    /\ sendT' = [pc |-> "pushed", type |-> sendT.msg.type]
    /\ pollT' = pollT

\* then the read of m_wsi, the writable request and return true
SendEnd ==
    /\ sendT.pc = "pushed"
    /\ Store(IF m_wsi # nullptr THEN lws_callback_on_writable(This, m_wsi) ELSE This,
             [op |-> "Send" \o sendT.type, ret |-> TRUE])
    /\ sendT' = [pc |-> "idle"]
    /\ pollT' = pollT

SetMessageCallback(callback) ==
    Return(Unlock([Access(Lock(This, "m_callbackMutex"), "m_messageCallback", "write")
                     EXCEPT !.m_messageCallback = callback],
                  "m_callbackMutex"),
           [op |-> "SetMessageCallback"])

SetStateCallback(callback) ==
    Return(Unlock([Access(Lock(This, "m_callbackMutex"), "m_stateCallback", "write")
                     EXCEPT !.m_stateCallback = callback],
                  "m_callbackMutex"),
           [op |-> "SetStateCallback"])

\* A setter on a thread of its own: it takes m_callbackMutex and begins the
\* assignment of the std::function,
SetterOp(slot) ==
    IF slot = "m_messageCallback" THEN "SetMessageCallback" ELSE "SetStateCallback"

SetterBegin(slot, callback) ==
    /\ sendT.pc = "idle"
    /\ Store(This, [op |-> SetterOp(slot), step |-> "assign"])
    /\ sendT' = [pc |-> "assign", slot |-> slot, callback |-> callback]
    /\ pollT' = pollT

\* and ends it, releases the mutex and returns.
SetterEnd ==
    /\ sendT.pc = "assign"
    /\ LET M0 == Access(Lock(This, "m_callbackMutex"), sendT.slot, "write")
           M1 == IF sendT.slot = "m_messageCallback"
                 THEN [M0 EXCEPT !.m_messageCallback = sendT.callback]
                 ELSE [M0 EXCEPT !.m_stateCallback = sendT.callback]
       IN  Store(Unlock(M1, "m_callbackMutex"), [op |-> SetterOp(sendT.slot)])
    /\ sendT' = [pc |-> "idle"]
    /\ pollT' = pollT

\* m_callbackMutex is free for the polling thread
CallbackMutexFree == sendT.pc # "assign"

Front_Back(queue) == queue[Len(queue)]

\* m_sendQueue.front()
Front(queue) == Head(queue)

Pop_Nothing(queue) == queue

\* m_sendQueue.pop()
Pop(queue) == Tail(queue)

RequestMore_Never(M, hasMore) == M

\* the end of ProcessSendQueue: another writable event if messages remain
RequestMore(M, hasMore) ==
    IF hasMore /\ M.m_wsi # nullptr
    THEN lws_callback_on_writable(M, M.m_wsi)
    ELSE M

WriteProtocol_AlwaysText(type) == "LWS_WRITE_TEXT"

\* enum lws_write_protocol wp of ProcessSendQueue
WriteProtocol(type) ==
    IF type = "Text" THEN "LWS_WRITE_TEXT" ELSE "LWS_WRITE_BINARY"

\* a failed write escalated at once: the state set to Error, the callback told
ProcessSendQueue_ReportsFailure(M, writeOk) ==
    LET M0 == Lock(M, "m_queueMutex")
    IN  IF M0.m_sendQueue = << >> \/ M0.m_wsi = nullptr
        THEN Unlock(M0, "m_queueMutex")
        ELSE
          LET msg == Front(M0.m_sendQueue)
              M1 == Unlock([M0 EXCEPT !.m_sendQueue = Pop(@)], "m_queueMutex")
              M2 == lws_write(M1, M1.m_wsi, msg.data, LWS_PRE, Len(msg.data) - LWS_PRE,
                              WriteProtocol(msg.type), writeOk)
          IN  IF ~writeOk
              THEN SetState(M2, "Error", <<[code |-> -1, message |-> "Write failed"]>>)
              ELSE RequestMore(M2, M2.m_sendQueue # << >>)

\* writeOk: whether lws_write reports success
ProcessSendQueue(M, writeOk) ==
    LET M0 == Lock(M, "m_queueMutex")
    IN  IF M0.m_sendQueue = << >> \/ M0.m_wsi = nullptr
        THEN Unlock(M0, "m_queueMutex")
        ELSE
          LET msg == Front(M0.m_sendQueue)
              M1 == Unlock([M0 EXCEPT !.m_sendQueue = Pop(@)], "m_queueMutex")
              wp == WriteProtocol(msg.type)
              dataLen == Len(msg.data) - LWS_PRE
              M2 == lws_write(M1, M1.m_wsi, msg.data, LWS_PRE, dataLen, wp, writeOk)
              hasMore == Unlock(Lock(M2, "m_queueMutex"), "m_queueMutex").m_sendQueue # << >>
          IN  IF ~writeOk
              THEN M2
              ELSE RequestMore(M2, hasMore)

\* case LWS_CALLBACK_CLIENT_ESTABLISHED
OnEstablished(M, wsi) ==
    SetState([M EXCEPT !.m_wsi = wsi], "Connected", << >>)

\* the frame kind never asked of the driver
OnReceive_AlwaysText(M, in) ==
    IF M.m_messageCallback # 0
    THEN Invoke(M, [cb |-> "message", fn |-> M.m_messageCallback, data |-> in.data,
                    length |-> Len(in.data), type |-> "Text"])
    ELSE M

\* case LWS_CALLBACK_CLIENT_RECEIVE; in.binary is lws_frame_is_binary(wsi)
\* the rest of the case once the test of line 470 found a callback
OnReceiveDeliver(M, in) ==
    LET type == IF in.binary THEN "Binary" ELSE "Text"
        M1 == Access(Lock(M, "m_callbackMutex"), "m_messageCallback", "read")
        callback == M1.m_messageCallback
        M2 == Unlock(M1, "m_callbackMutex")
    IN  IF callback # 0
        THEN Invoke(M2, [cb |-> "message", fn |-> callback, data |-> in.data,
                         length |-> Len(in.data), type |-> type])
        ELSE M2

\* the same in the second definition: tested again and called under the lock
OnReceiveUnderLock(M, in) ==
    LET type == IF in.binary THEN "Binary" ELSE "Text"
        M1 == Access(Lock(M, "m_callbackMutex"), "m_messageCallback", "read")
    IN  IF M1.m_messageCallback # 0
        THEN Unlock(Invoke(M1, [cb |-> "message", fn |-> M1.m_messageCallback,
                                data |-> in.data, length |-> Len(in.data),
                                type |-> type]),
                    "m_callbackMutex")
        ELSE Unlock(M1, "m_callbackMutex")

OnReceive(M, in) ==
    LET M0 == Access(M, "m_messageCallback", "read")
    IN  IF M0.m_messageCallback # 0
        THEN IF M0.variant = 2
             THEN OnReceiveUnderLock(M0, in)
             ELSE OnReceiveDeliver(M0, in)
        ELSE M0

OnConnectionError_Cleanup(M, in) ==
    Cleanup(SetState(M, "Error",
                     <<[code |-> -1,
                        message |-> IF in # << >> THEN in[1] ELSE "Connection error"]>>))

OnConnectionError_NullError(M, in) ==
    [SetState(M, "Error", << >>) EXCEPT !.m_wsi = nullptr]

\* case LWS_CALLBACK_CLIENT_CONNECTION_ERROR; in is << >> for in == NULL
OnConnectionError(M, in) ==
    [SetState(M, "Error",
              <<[code |-> -1,
                 message |-> IF in # << >> THEN in[1] ELSE "Connection error"]>>)
       EXCEPT !.m_wsi = nullptr]

OnClosed_KeepsState(M) == [M EXCEPT !.m_wsi = nullptr]

\* case LWS_CALLBACK_CLIENT_CLOSED
OnClosed(M) ==
    SetState([M EXCEPT !.m_wsi = nullptr], "Disconnected", << >>)

\* the event handler; the context's user pointer is the session, so self is set
LwsCallback(M, wsi, reason, in, writeOk) ==
    CASE reason = "LWS_CALLBACK_CLIENT_ESTABLISHED" -> OnEstablished(M, wsi)
      [] reason = "LWS_CALLBACK_CLIENT_RECEIVE" -> OnReceive(M, in)
      [] reason = "LWS_CALLBACK_CLIENT_WRITEABLE" -> ProcessSendQueue(M, writeOk)
      [] reason = "LWS_CALLBACK_CLIENT_CONNECTION_ERROR" -> OnConnectionError(M, in)
      [] reason = "LWS_CALLBACK_CLIENT_CLOSED" -> OnClosed(M)
      [] OTHER -> M

\* ------------------------------------------------- what lws_service may do
Reasons == {"LWS_CALLBACK_CLIENT_ESTABLISHED", "LWS_CALLBACK_CLIENT_RECEIVE",
            "LWS_CALLBACK_CLIENT_WRITEABLE", "LWS_CALLBACK_CLIENT_CONNECTION_ERROR",
            "LWS_CALLBACK_CLIENT_CLOSED", "none"}

\* the events the driver can raise on the handle of the serviced context
Raisable(reason) ==
    CASE reason = "LWS_CALLBACK_CLIENT_ESTABLISHED" -> lws.status = "connecting"
      [] reason = "LWS_CALLBACK_CLIENT_CONNECTION_ERROR" -> lws.status = "connecting"
      [] reason = "LWS_CALLBACK_CLIENT_RECEIVE" -> lws.status = "established"
      [] reason = "LWS_CALLBACK_CLIENT_WRITEABLE" ->
           lws.status = "established" /\ lws.writable
      [] reason = "LWS_CALLBACK_CLIENT_CLOSED" -> lws.status = "established"
      [] OTHER -> TRUE

\* what the event inputs are drawn from
EventInputs(reason) ==
    CASE reason = "LWS_CALLBACK_CLIENT_RECEIVE" -> RxFrames
      [] reason = "LWS_CALLBACK_CLIENT_CONNECTION_ERROR" -> ErrorTexts
      [] OTHER -> {<< >>}

\* the driver's own bookkeeping when it raises the event
Raise(M, reason) ==
    CASE reason = "LWS_CALLBACK_CLIENT_ESTABLISHED" -> [M EXCEPT !.lws.status = "established"]
      [] reason = "LWS_CALLBACK_CLIENT_CONNECTION_ERROR" ->
           [M EXCEPT !.lws.status = "closed", !.lws.writable = FALSE]
      [] reason = "LWS_CALLBACK_CLIENT_WRITEABLE" -> [M EXCEPT !.lws.writable = FALSE]
      [] reason = "LWS_CALLBACK_CLIENT_CLOSED" ->
           [M EXCEPT !.lws.status = "closed", !.lws.writable = FALSE]
      [] OTHER -> M

\* lws_service(m_context, timeoutMs) raising one event (or none) and reporting res
lws_service(M, ctx, reason, in, writeOk, res) ==
    LET M1 == LwsCalled(M, [fn |-> "lws_service", ctx |-> ctx, event |-> reason,
                            res |-> res])
    IN  [M |-> IF reason = "none"
               THEN M1
               ELSE LwsCallback(Raise(M1, reason), ctx, reason, in, writeOk),
         res |-> res]

PollBody_NoContextCheck(M, reason, in, writeOk, res) ==
    lws_service(M, M.m_context, reason, in, writeOk, res)

PollBody(M, reason, in, writeOk, res) ==
    IF M.m_context = nullptr
    THEN [M |-> M, res |-> -1]
    ELSE lws_service(M, M.m_context, reason, in, writeOk, res)

\* Poll(timeoutMs): the timeout only bounds how long the driver may block.
\* Without a context the driver is not entered, so it has no event and no result
\* to choose; with one, it raises what the handle allows.
Poll(reason, in, writeOk, res) ==
    /\ IF m_context = nullptr
       THEN reason = "none" /\ writeOk /\ res = -1
       ELSE /\ Raisable(reason)
            /\ (reason # "LWS_CALLBACK_CLIENT_WRITEABLE" => writeOk)
    /\ LET r == PollBody(This, reason, in, writeOk, res)
       IN  Return(r.M, [op |-> "Poll", res |-> r.res])

\* ------------------------------------------------------------ specification
Init ==
    /\ m_state = LwsWebSocketClient.m_state
    /\ m_context = LwsWebSocketClient.m_context
    /\ m_wsi = LwsWebSocketClient.m_wsi
    /\ m_config = LwsWebSocketClient.m_config
    /\ m_sendQueue = LwsWebSocketClient.m_sendQueue
    /\ m_stateCallback = LwsWebSocketClient.m_stateCallback
    /\ m_messageCallback = LwsWebSocketClient.m_messageCallback
    /\ lws = [live |-> {}, created |-> 0, status |-> "none",
              writable |-> FALSE, close |-> FALSE]
    /\ lastCall = [op |-> "LwsWebSocketClient"]
    /\ cbTrace = << >>
    /\ cbSeen = << >>
    /\ stTrace = << >>
    /\ lwsTrace = << >>
    /\ accTrace = << >>
    /\ sendT = [pc |-> "idle"]
    /\ pollT = [pc |-> "idle"]
    /\ accepted = << >>
    /\ written = << >>

\* Poll on its own thread while a setter runs on another, the driver raising
\* LWS_CALLBACK_CLIENT_RECEIVE with the frame in: first the test of
\* m_messageCallback, made without the mutex. While the other thread is in the
\* middle of assigning that member the test is a data race, and found is
\* whichever way the torn value tests.
ReceiveTest(in, found) ==
    /\ pollT.pc = "idle"
    /\ m_context # nullptr
    /\ Raisable("LWS_CALLBACK_CLIENT_RECEIVE")
    /\ IF sendT.pc = "assign" /\ sendT.slot = "m_messageCallback"
       THEN found \in BOOLEAN
       ELSE found = (m_messageCallback # 0)
    /\ LET M1 == LwsCalled(This, [fn |-> "lws_service", ctx |-> m_context,
                                  event |-> "LWS_CALLBACK_CLIENT_RECEIVE", res |-> 0])
           M2 == Access(Raise(M1, "LWS_CALLBACK_CLIENT_RECEIVE"),
                        "m_messageCallback", "read")
       IN  IF found
           THEN /\ Store(M2, [op |-> "Poll", step |-> "test"])
                /\ pollT' = [pc |-> "tested", in |-> in]
           ELSE /\ Store(M2, [op |-> "Poll", res |-> 0])
                /\ pollT' = pollT
    /\ sendT' = sendT

\* then, once the mutex is free, the copy under the mutex and the call
ReceiveDeliver ==
    /\ pollT.pc = "tested"
    /\ CallbackMutexFree
    /\ Store(OnReceiveDeliver(This, pollT.in), [op |-> "Poll", res |-> 0])
    /\ pollT' = [pc |-> "idle"]
    /\ sendT' = sendT

\* an accepted Connect creates a context, an accepted send* queues a message:
\* the bounds stop the accepted calls, never the rejected ones
MayConnect(n) == m_state = "Disconnected" => lws.created < n
MaySend(n) == m_state = "Connected" => Len(accepted) < n

DoConnect(configs, n) ==
    /\ MayConnect(n)
    /\ \E config \in configs, ctxOk, uriOk, wsiOk \in BOOLEAN :
          Connect(config, ctxOk, uriOk, wsiOk)

DoDisconnect(args) == \E a \in args : Disconnect(a.code, a.reason)

DoSendText(texts, n) == MaySend(n) /\ \E message \in texts : SendText(message)

DoSendBinary(binaries, n) == MaySend(n) /\ \E in \in binaries : SendBinary(in)

DoSetMessageCallback == \E callback \in Callbacks : SetMessageCallback(callback)

DoSetStateCallback == \E callback \in Callbacks : SetStateCallback(callback)

\* the two reads, called between the other operations
DoIsConnected == Return(This, [op |-> "IsConnected", ret |-> IsConnected])

DoGetState == Return(This, [op |-> "GetState", state |-> GetState])

DoPoll(writeResults, serviceResults) ==
    \E reason \in Reasons, writeOk \in writeResults, res \in serviceResults :
       \E in \in EventInputs(reason) : Poll(reason, in, writeOk, res)

Next ==
    \/ DoConnect(WebSocketConfig, MaxConnects)
    \/ DoDisconnect(CloseArgs)
    \/ DoSendText(TextInputs, MaxSends)
    \/ DoSendBinary(BinaryInputs, MaxSends)
    \/ DoSetMessageCallback
    \/ DoSetStateCallback
    \/ DoPoll(BOOLEAN, ServiceResults)

Spec == Init /\ [][Next]_vars

\* The session of a caller that registers no callback and queues two kinds of
\* frame, one of them empty: room for three messages in the queue.
NextFifo ==
    \/ DoConnect(WebSocketConfig, MaxFifoConnects)
    \/ DoDisconnect(DefaultClose)
    \/ DoSendText(FifoTexts, MaxFifoSends)
    \/ DoSendBinary(FifoBinaries, MaxFifoSends)
    \/ DoPoll(BOOLEAN, ServiceResults)

SpecFifo == Init /\ [][NextFifo]_vars

\* The same caller with a driver whose every lws_write succeeds, that is
\* polled for ever and raises every writable event it was asked for.
NextLive ==
    \/ DoConnect(LiveConfigs, MaxLiveConnects)
    \/ DoDisconnect(DefaultClose)
    \/ DoSendText(FifoTexts, MaxLiveSends)
    \/ DoSendBinary(FifoBinaries, MaxLiveSends)
    \/ DoPoll({TRUE}, {0})

DeliverWritable == Poll("LWS_CALLBACK_CLIENT_WRITEABLE", << >>, TRUE, 0)

SpecLive == Init /\ [][NextLive]_vars /\ WF_vars(DeliverWritable)

\* Two threads, as the thread-safety test runs them: one calls SendText and
\* SendBinary, the other Connect and Poll; a step of one may fall between any
\* two steps of the other.
DoSendBegin(texts, binaries, n) ==
    /\ MaySend(n)
    /\ \/ \E message \in texts : SendBegin("Text", message, Len(message))
       \/ \E in \in binaries : SendBegin("Binary", in.data, in.length)

NextThreads ==
    \/ DoConnect(LiveConfigs, MaxThreadConnects)
    \/ DoPoll({TRUE}, {0})
    \/ DoSendBegin(FifoTexts, FifoBinaries, MaxThreadSends)
    \/ SendPush
    \/ SendEnd

SpecThreads == Init /\ [][NextThreads]_vars

\* The threads of the concurrent-setter test, with a connection on which frames
\* arrive: one thread sets callbacks, the other connects and polls. An
\* operation that takes m_callbackMutex waits while the setter holds it.
NextSetters ==
    \/ \E slot \in {"m_messageCallback", "m_stateCallback"}, callback \in Callbacks :
          SetterBegin(slot, callback)
    \/ SetterEnd
    \/ pollT.pc = "idle" /\ CallbackMutexFree /\ DoConnect(LiveConfigs, MaxSetterConnects)
    \/ /\ pollT.pc = "idle" /\ CallbackMutexFree
       /\ Poll("LWS_CALLBACK_CLIENT_ESTABLISHED", << >>, TRUE, 0)
    \/ \E in \in RxFrames, found \in BOOLEAN : ReceiveTest(in, found)
    \/ ReceiveDeliver

SpecSetters == Init /\ [][NextSetters]_vars

\* The session built from the second definitions. An operation in which a
\* callback got stuck leaves the object as it stood at that moment and never
\* returns; nothing more is called on that thread.
VariantThis == [This EXCEPT !.variant = 2]

Stuck == IF "step" \in DOMAIN lastCall THEN lastCall.step \in RelockOutcomes ELSE FALSE

Finish(M, call) ==
    IF M.frozen # << >>
    THEN /\ \E outcome \in RelockOutcomes :
              Store(M.frozen[1], [op |-> call.op, step |-> outcome])
         /\ UNCHANGED <<sendT, pollT>>
    ELSE Return(M, call)

VariantConnect(config, ctxOk, uriOk, wsiOk) ==
    /\ ~ctxOk => uriOk
    /\ ~uriOk => wsiOk
    /\ LET r == ConnectBody(VariantThis, config, ctxOk, uriOk, wsiOk)
       IN  Finish(r.M, [op |-> "Connect", ret |-> r.ret])

VariantDisconnect(code, reason) ==
    Finish(DisconnectBody(VariantThis, code, reason),
           [op |-> "Disconnect", code |-> code, reason |-> reason])

VariantPoll(reason, in, writeOk, res) ==
    /\ IF m_context = nullptr
       THEN reason = "none" /\ writeOk /\ res = -1
       ELSE /\ Raisable(reason)
            /\ (reason # "LWS_CALLBACK_CLIENT_WRITEABLE" => writeOk)
    /\ LET r == PollBody(VariantThis, reason, in, writeOk, res)
       IN  Finish(r.M, [op |-> "Poll", res |-> r.res])

NextVariant ==
    \/ /\ ~Stuck /\ MayConnect(MaxVariantConnects)
       /\ \E ctxOk, uriOk, wsiOk \in BOOLEAN :
             \E config \in LiveConfigs : VariantConnect(config, ctxOk, uriOk, wsiOk)
    \/ ~Stuck /\ \E a \in DefaultClose : VariantDisconnect(a.code, a.reason)
    \/ ~Stuck /\ \E callback \in VariantCallbacks : SetStateCallback(callback)
    \/ ~Stuck /\ \E callback \in VariantCallbacks : SetMessageCallback(callback)
    \/ /\ ~Stuck
       /\ \E reason \in Reasons : \E in \in EventInputs(reason) :
             VariantPoll(reason, in, TRUE, 0)

SpecVariant == Init /\ [][NextVariant]_vars

\* A caller that stamps every text it sends with the number of the connection
\* it sends it on (the number of the newest context), over connections that
\* are closed and made again; every lws_write succeeds.
StampedTexts == {<<lws.created>>}

NextStamped ==
    \/ DoConnect(LiveConfigs, MaxStampConnects)
    \/ DoDisconnect(DefaultClose)
    \/ DoSendText(StampedTexts, MaxStampSends)
    \/ DoPoll({TRUE}, {0})

SpecStamped == Init /\ [][NextStamped]_vars

\* A caller that tries to recover a session: it keeps calling Disconnect with
\* its defaults and keeps polling, and connects again when it can.
NextRecover ==
    \/ DoConnect(LiveConfigs, MaxRecoverConnects)
    \/ DoDisconnect(DefaultClose)
    \/ DoPoll({TRUE}, {0})

CallDisconnect == DoDisconnect(DefaultClose)

KeepPolling == DoPoll({TRUE}, {0})

SpecRecover ==
    Init /\ [][NextRecover]_vars /\ WF_vars(CallDisconnect) /\ WF_vars(KeepPolling)

\* The caller's thread and the polling thread: Connect, the send operations and
\* Disconnect are called on the first, one at a time, and Poll on the second;
\* a Poll may fall between any two steps of the caller's operation. m_state and
\* m_wsi are plain members, read and written with no lock.
\* The end of SendText and SendBinary in two steps: the test of m_wsi,
SendTestWsi ==
    /\ sendT.pc = "pushed"
    /\ IF m_wsi = nullptr
       THEN /\ Store(This, [op |-> "Send" \o sendT.type, ret |-> TRUE])
            /\ sendT' = [pc |-> "idle"]
       ELSE /\ Store(This, [op |-> "Send" \o sendT.type, step |-> "m_wsi"])
            /\ sendT' = [pc |-> "request", type |-> sendT.type, wsi |-> m_wsi]
    /\ pollT' = pollT

\* then the request, on the value tested or on m_wsi read again, as the build
\* chose to compile the second mention of the member.
SendRequest ==
    /\ sendT.pc = "request"
    /\ \E wsi \in {sendT.wsi, m_wsi} :
          Store(lws_callback_on_writable(This, wsi),
                [op |-> "Send" \o sendT.type, ret |-> TRUE])
    /\ sendT' = [pc |-> "idle"]
    /\ pollT' = pollT

\* Disconnect in its steps: the test of m_state,
DisconnectCheck(code, reason) ==
    /\ sendT.pc = "idle"
    /\ IF m_state = "Disconnected"
       THEN /\ Store(This, [op |-> "Disconnect", code |-> code, reason |-> reason])
            /\ sendT' = sendT
       ELSE /\ Store(This, [op |-> "Disconnect", step |-> "m_state"])
            /\ sendT' = [pc |-> "checked", code |-> code, reason |-> reason]
    /\ pollT' = pollT

\* SetState(Disconnecting) and the test of m_wsi,
DisconnectSetState ==
    /\ sendT.pc = "checked"
    /\ LET M1 == SetState(This, "Disconnecting", << >>)
       IN  IF M1.m_wsi = nullptr
           THEN /\ Store(M1, [op |-> "Disconnect", code |-> sendT.code,
                              reason |-> sendT.reason])
                /\ sendT' = [pc |-> "idle"]
           ELSE /\ Store(M1, [op |-> "Disconnect", step |-> "m_wsi"])
                /\ sendT' = [pc |-> "close", code |-> sendT.code,
                             reason |-> sendT.reason, wsi |-> M1.m_wsi]
    /\ pollT' = pollT

\* and the close request and the writable request.
DisconnectClose ==
    /\ sendT.pc = "close"
    /\ \E wsi \in {sendT.wsi, m_wsi} :
          Store(lws_callback_on_writable(
                    lws_close_reason(This, wsi, sendT.code, sendT.reason), wsi),
                [op |-> "Disconnect", code |-> sendT.code, reason |-> sendT.reason])
    /\ sendT' = [pc |-> "idle"]
    /\ pollT' = pollT

\* Connect is the caller's too, so it starts when no other call of the caller runs
CallerConnect(configs, n) == sendT.pc = "idle" /\ DoConnect(configs, n)

NextCaller ==
    \/ CallerConnect(LiveConfigs, MaxCallerConnects)
    \/ DoPoll({TRUE}, {0})
    \/ DoSendBegin(FifoTexts, FifoBinaries, MaxCallerSends)
    \/ SendPush
    \/ SendTestWsi
    \/ SendRequest
    \/ \E a \in DefaultClose : DisconnectCheck(a.code, a.reason)
    \/ DisconnectSetState
    \/ DisconnectClose

SpecCaller == Init /\ [][NextCaller]_vars

\* The caller of the state-consistency test, which reads the state after every
\* step of a connection's life.
NextRead ==
    \/ DoConnect(WebSocketConfig, MaxReadConnects)
    \/ DoDisconnect(DefaultClose)
    \/ DoIsConnected
    \/ DoGetState
    \/ DoPoll({TRUE}, {0})

SpecRead == Init /\ [][NextRead]_vars

\* The caller of the graceful-disconnect test: one connection, a state callback,
\* Disconnect with its defaults, and a Poll loop that never stops; the driver
\* ends every handshake and raises Closed for a close it was asked for.
NextClose ==
    \/ DoConnect(LiveConfigs, MaxCloseConnects)
    \/ DoDisconnect(DefaultClose)
    \/ DoSetStateCallback
    \/ DoSendText(FifoTexts, MaxCloseSends)
    \/ DoPoll({TRUE}, {0})

DeliverHandshake ==
    \E reason \in {"LWS_CALLBACK_CLIENT_ESTABLISHED", "LWS_CALLBACK_CLIENT_CONNECTION_ERROR"} :
       \E in \in EventInputs(reason) : Poll(reason, in, TRUE, 0)

DeliverClosed == lws.close /\ Poll("LWS_CALLBACK_CLIENT_CLOSED", << >>, TRUE, 0)

SpecClose ==
    Init /\ [][NextClose]_vars /\ WF_vars(DeliverHandshake) /\ WF_vars(DeliverClosed)

\* The caller of the message-callback tests: it sets a callback, replaces it by
\* another or by the empty one, and polls a connection on which frames arrive.
NextRecv ==
    \/ DoConnect(LiveConfigs, MaxRecvConnects)
    \/ DoDisconnect(DefaultClose)
    \/ \E callback \in MessageCallbacks : SetMessageCallback(callback)
    \/ DoPoll({TRUE}, {0})

SpecRecv == Init /\ [][NextRecv]_vars

\* ~LwsWebSocketClient: the last operation on a session; from is the state the
\* session was destroyed in
Alive == lastCall.op # "~LwsWebSocketClient"

Destroy ==
    /\ Alive
    /\ Return(Cleanup(This), [op |-> "~LwsWebSocketClient", from |-> m_state])

\* The life of a session from its construction to its destruction, which may
\* come in any state: connection attempts, close requests and Poll events, then
\* the destructor, after which nothing is called.
NextLife ==
    \/ Alive /\ DoConnect(LiveConfigs, MaxLifeConnects)
    \/ Alive /\ DoDisconnect(DefaultClose)
    \/ Alive /\ DoPoll({TRUE}, {0})
    \/ Destroy

SpecLife == Init /\ [][NextLife]_vars

\* ================================================================== claims
\* what the last operation did, read off the traces it left
Established == "LWS_CALLBACK_CLIENT_ESTABLISHED"
Writeable == "LWS_CALLBACK_CLIENT_WRITEABLE"

\* the event the last Poll handled ("none" when the last operation raised none)
HandledEvent(call, trace) ==
    IF call.op = "Poll" /\ trace # << >> THEN trace[1].event ELSE "none"

\* the driver calls of that name in a trace
CallsOf(trace, fn) == {i \in DOMAIN trace : trace[i].fn = fn}

\* the last Connect got past the state check and a driver call then refused:
\* lws_parse_uri failed or lws_client_connect_via_info returned NULL
DriverRefused(trace) ==
    \/ \E i \in CallsOf(trace, "lws_parse_uri") : trace[i].res # 0
    \/ \E i \in CallsOf(trace, "lws_client_connect_via_info") : trace[i].res = nullptr

\* the frames of the queued messages, in queue order
QueuedFrames ==
    [i \in DOMAIN m_sendQueue |->
        [data |-> Payload(m_sendQueue[i]), type |-> m_sendQueue[i].type]]

IsPrefix(a, b) == Len(a) <= Len(b) /\ SubSeq(b, 1, Len(a)) = a

\* C1: right after construction, before any operation has been called,
\* GetState() is Disconnected and IsConnected() is false.
C1_InitialState ==
    lastCall.op = "LwsWebSocketClient" => (GetState = "Disconnected" /\ ~IsConnected)

C1_Witness ==
    lastCall.op = "LwsWebSocketClient" /\ GetState = "Disconnected" /\ m_context = nullptr

\* C2: Connect called in any state but Disconnected returns false, leaves the
\* state, the configuration, the context, the handle and the queue as they
\* were, makes no driver call and invokes no callback.
C2_ConnectRejected ==
    [][(lastCall'.op = "Connect" /\ m_state # "Disconnected") =>
          /\ lastCall'.ret = FALSE
          /\ UNCHANGED <<m_state, m_config, m_context, m_wsi, m_sendQueue, lws>>
          /\ lwsTrace' = << >>
          /\ cbTrace' = << >>]_vars

C2_Witness ==
    /\ lastCall.op = "Connect" /\ lastCall.ret = FALSE
    /\ m_state = "Connected" /\ m_stateCallback # 0 /\ m_sendQueue # << >>

\* C3 (as claimed): a Connect accepted in Disconnected whose endpoint does not
\* parse, or whose connection the driver refuses to start, returns false with
\* the state Error.
C3_FailedConnectIsError ==
    (lastCall.op = "Connect" /\ DriverRefused(lwsTrace)) =>
        (lastCall.ret = FALSE /\ GetState = "Error")

\* C4 (as claimed): once a Connect has failed synchronously the state is Error
\* and the next Connect returns false.
C4_ErrorBlocksConnect ==
    [][(lastCall.op = "Connect" /\ lastCall.ret = FALSE /\ lwsTrace # << >>) =>
          /\ m_state = "Error"
          /\ lastCall'.op = "Connect" => lastCall'.ret = FALSE]_vars

\* C5: a Connect that returns true leaves the state Connecting with a context
\* and a handle stored; the state turns Connected only in a Poll that handles
\* an Established event.
C5_ConnectInitiates ==
    [][/\ (lastCall'.op = "Connect" /\ lastCall'.ret = TRUE) =>
             (m_state' = "Connecting" /\ m_context' # nullptr /\ m_wsi' # nullptr)
       /\ (m_state # "Connected" /\ m_state' = "Connected") =>
             HandledEvent(lastCall', lwsTrace') = Established]_vars

C5_Witness ==
    /\ lastCall.op = "Connect" /\ lastCall.ret = TRUE
    /\ m_state = "Connecting" /\ m_context # nullptr /\ m_wsi # nullptr

\* C6: SendText and SendBinary called in any state but Connected return
\* false, leave the queue as it was and ask the driver for nothing.
C6_SendRejected ==
    [][(lastCall'.op \in {"SendText", "SendBinary"} /\ m_state # "Connected") =>
          /\ lastCall'.ret = FALSE
          /\ UNCHANGED <<m_sendQueue, accepted, lws>>
          /\ lwsTrace' = << >>]_vars

C6_Witness ==
    /\ lastCall.op = "SendBinary" /\ lastCall.ret = FALSE
    /\ m_state = "Disconnecting" /\ m_wsi # nullptr

C8_WrittenInOrder ==
    [][/\ IsPrefix(written', accepted')
       /\ written' # written =>
             /\ Len(written') = Len(written) + 1
             /\ HandledEvent(lastCall', lwsTrace') = Writeable
             /\ Cardinality(CallsOf(lwsTrace', "lws_write")) = 1]_vars

C8_Witness ==
    /\ Len(written) = 3 /\ written = accepted
    /\ written[1].type = "Binary" /\ written[2].type = "Text"
    /\ written[3].type = "Binary"

\* C9: every message send* accepted is either still queued or was handed to
\* lws_write once: the accepted messages are the written ones followed by the
\* queued ones.
C9_NoLossNoDuplicate == accepted = written \o QueuedFrames

C9_Witness ==
    /\ m_state = "Disconnected"
    /\ Len(written) = 1 /\ Len(m_sendQueue) = 2

\* the state send* leaves when it accepts the k-th message
JustAccepted(k) ==
    IF lastCall.op \in {"SendText", "SendBinary"}
    THEN lastCall.ret = TRUE /\ Len(accepted) = k
    ELSE FALSE

\* C10: from the moment send* accepts a message, with every write succeeding
\* and every requested writable event raised, the message is handed to
\* lws_write unless the state leaves Connected first.
C10_EventuallyWritten ==
    \A k \in 1..MaxLiveSends :
        JustAccepted(k) ~> (Len(written) >= k \/ m_state # "Connected")

C10_Witness ==
    /\ m_state = "Connected" /\ m_sendQueue = << >>
    /\ Len(accepted) = MaxLiveSends /\ Len(written) = MaxLiveSends
    /\ HandledEvent(lastCall, lwsTrace) = Writeable

\* the driver calls Disconnect makes on the live handle wsi
CloseRequest(wsi, code, reason) ==
    <<[fn |-> "lws_close_reason", wsi |-> wsi, code |-> code, reason |-> reason],
      [fn |-> "lws_callback_on_writable", wsi |-> wsi]>>

\* C11: Disconnect called while Disconnected changes nothing (state, queue,
\* handle, context, configuration, callbacks and driver stay as they were),
\* stores no state, calls no driver function and invokes no callback, however
\* often it is repeated.
C11_DisconnectNoOp ==
    [][(lastCall'.op = "Disconnect" /\ m_state = "Disconnected") =>
          /\ UNCHANGED <<m_state, m_sendQueue, m_wsi, m_context, m_config,
                         m_stateCallback, m_messageCallback, lws>>
          /\ stTrace' = << >>
          /\ lwsTrace' = << >>
          /\ cbTrace' = << >>]_vars

C11_Witness ==
    /\ lastCall.op = "Disconnect" /\ m_state = "Disconnected"
    /\ m_context # nullptr /\ m_stateCallback # 0 /\ m_sendQueue # << >>

\* C12: Disconnect called in any other state stores Disconnecting and nothing
\* else; on a live handle it asks the driver for a close with the code and the
\* reason given and for one writable event, without a handle it asks nothing;
\* the handle, the context and the driver's contexts stay as they were.
C12_DisconnectRequests ==
    [][(lastCall'.op = "Disconnect" /\ m_state # "Disconnected") =>
          /\ m_state' = "Disconnecting"
          /\ stTrace' = <<"Disconnecting">>
          /\ lwsTrace' = (IF m_wsi # nullptr
                          THEN CloseRequest(m_wsi, lastCall'.code, lastCall'.reason)
                          ELSE << >>)
          /\ (m_wsi # nullptr => lws'.close /\ lws'.writable)
          /\ UNCHANGED <<m_wsi, m_context>>
          /\ lws'.live = lws.live]_vars

C12_Witness ==
    /\ lastCall.op = "Disconnect" /\ lastCall.code = 1001 /\ lastCall.reason = "Going away"
    /\ m_state = "Disconnecting" /\ m_wsi # nullptr /\ m_context \in lws.live
    /\ lwsTrace = CloseRequest(m_wsi, 1001, "Going away")

ConnectionError == "LWS_CALLBACK_CLIENT_CONNECTION_ERROR"
Closed == "LWS_CALLBACK_CLIENT_CLOSED"

\* what the state callback was called with by the last operation, in order
StatesReported(trace) ==
    [i \in DOMAIN trace |-> IF trace[i].cb = "state" THEN trace[i].state ELSE "message"]

\* the state Disconnect leaves when it has asked a live handle to close
JustDisconnecting ==
    IF lastCall.op = "Disconnect"
    THEN m_state = "Disconnecting" /\ m_wsi # nullptr /\ lws.close
    ELSE FALSE

\* the state a Poll leaves that handled Closed: Disconnected, and told to the
\* state callback if one is registered
ClosedReported ==
    /\ HandledEvent(lastCall, lwsTrace) = Closed
    /\ m_state = "Disconnected"
    /\ m_stateCallback # 0 => StatesReported(cbTrace) = <<"Disconnected">>

\* C13: after a Disconnect that found the state Connecting or Connected (the
\* handle is live), with the caller polling and the driver ending the
\* handshake and raising Closed for the close it was asked for, the state
\* becomes Disconnected in a Poll that tells the state callback Disconnected;
\* the one way out is a handshake that fails, which raises no Closed.
C13_DisconnectCompletes ==
    JustDisconnecting ~>
        (ClosedReported \/ HandledEvent(lastCall, lwsTrace) = ConnectionError)

C13_Witness ==
    /\ ClosedReported /\ m_stateCallback # 0 /\ lws.close
    /\ m_context # nullptr /\ m_wsi = nullptr

\* C14: a Poll made with no context stored returns -1, makes no driver call
\* and changes nothing; a Poll made with a context calls lws_service once, on
\* that context, first, and returns the value lws_service reported.
C14_PollResult ==
    [][lastCall'.op = "Poll" =>
          IF m_context = nullptr
          THEN /\ lastCall'.res = -1
               /\ lwsTrace' = << >> /\ cbTrace' = << >> /\ stTrace' = << >>
               /\ UNCHANGED <<m_state, m_context, m_wsi, m_sendQueue, lws>>
          ELSE /\ CallsOf(lwsTrace', "lws_service") = {1}
               /\ lwsTrace'[1].ctx = m_context
               /\ lastCall'.res = lwsTrace'[1].res]_vars

\* Poll answered -1 for want of a context, after a Connect that created one
\* and failed
C14_Witness ==
    /\ lastCall.op = "Poll" /\ lastCall.res = -1 /\ lwsTrace = << >>
    /\ m_context = nullptr /\ lws.created > 0

\* what the session holds besides the traces of the last operation
Session == <<m_state, m_context, m_wsi, m_config, m_sendQueue, m_stateCallback,
             m_messageCallback, lws, accepted, written>>

\* C15: in every state IsConnected() is true exactly when GetState() is
\* Connected; a call of either returns that value for the state it was made
\* in, and leaves the state, the queue, the handle, the context and all else
\* the session holds as they were.
C15_ReadsAgree ==
    [][/\ IsConnected <=> (GetState = "Connected")
       /\ IsConnected' <=> (GetState' = "Connected")
       /\ lastCall'.op = "IsConnected" =>
             /\ lastCall'.ret = (GetState = "Connected")
             /\ UNCHANGED Session
       /\ lastCall'.op = "GetState" =>
             /\ (lastCall'.state = "Connected") = IsConnected
             /\ lastCall'.state = m_state
             /\ UNCHANGED Session]_vars

C15_Witness ==
    /\ lastCall.op = "IsConnected" /\ lastCall.ret = TRUE
    /\ GetState = "Connected" /\ m_wsi # nullptr

\* the changes of m_state an operation made: from the state it started in
\* through the values it stored, pairs of equal states left out
StateChanges(from, trace) ==
    {<<IF i = 1 THEN from ELSE trace[i - 1], trace[i]>> : i \in DOMAIN trace}
        \ {<<st, st>> : st \in ConnectionState}

\* the last operation was a Poll that handled a connection-error or a Closed event
FailureOrClose(call, trace) == HandledEvent(call, trace) \in {ConnectionError, Closed}

ListedTransitions ==
    {<<"Disconnected", "Connecting">>, <<"Connecting", "Connected">>,
     <<"Connecting", "Error">>, <<"Connected", "Disconnecting">>,
     <<"Disconnecting", "Disconnected">>, <<"Disconnecting", "Error">>}

\* what the code does besides: Disconnect in Connecting and in Error, the
\* handshake that completes after Disconnect, and Cleanup at the end of a
\* Connect that failed
UnlistedTransitions ==
    {<<"Connecting", "Disconnecting">>, <<"Error", "Disconnecting">>,
     <<"Disconnecting", "Connected">>, <<"Error", "Disconnected">>}

C18_ConnectReportsConnecting ==
    [][(lastCall'.op = "Connect" /\ m_state = "Disconnected" /\ m_stateCallback # 0) =>
          /\ cbTrace' # << >>
          /\ cbTrace'[1] = [cb |-> "state", fn |-> m_stateCallback,
                            state |-> "Connecting", error |-> << >>]
          /\ CallsOf(lwsTrace', "lws_service") = {}]_vars

C18_Witness ==
    /\ lastCall.op = "Connect" /\ lastCall.ret = TRUE
    /\ StatesReported(cbTrace) = <<"Connecting">> /\ m_state = "Connecting"

\* the invocations of the state callback among the callbacks of a trace
StateCalls(trace) == {i \in DOMAIN trace : trace[i].cb = "state"}

\* C19: in every invocation of the state callback the error pointer is set
\* exactly when the state passed is Error, and then points to one error with
\* a code and a message; with Connecting, Connected, Disconnecting and
\* Disconnected it is null.
C19_ErrorOnlyWithError ==
    \A i \in StateCalls(cbTrace) :
        /\ (cbTrace[i].error # << >>) <=> (cbTrace[i].state = "Error")
        /\ cbTrace[i].error # << >> =>
              /\ Len(cbTrace[i].error) = 1
              /\ DOMAIN cbTrace[i].error[1] = {"code", "message"}
              /\ cbTrace[i].error[1].code = -1

\* the state callback told Error by a Poll, with the driver's text
C19_Witness ==
    /\ HandledEvent(lastCall, lwsTrace) = ConnectionError
    /\ StateCalls(cbTrace) = {1} /\ cbTrace[1].state = "Error"
    /\ cbTrace[1].error = <<[code |-> -1, message |-> "refused"]>>

\* the handshake of the newest connection is under way
HandshakePending(driver) == driver.status = "connecting"

\* C20: with a state callback registered, a Connect that returns true has
\* invoked it once, with Connecting; while the handshake is pending no
\* operation invokes it with Connecting or with Error; and the Poll in which
\* the driver reports the connection error invokes it once, with Error and a
\* non-null error that carries a message, and leaves GetState() = Error.
C20_ConnectingThenError ==
    [][/\ (lastCall'.op = "Connect" /\ lastCall'.ret = TRUE /\ m_stateCallback # 0) =>
             /\ StatesReported(cbTrace') = <<"Connecting">>
             /\ HandshakePending(lws')
       /\ (HandshakePending(lws) /\ HandshakePending(lws')) =>
             \A i \in StateCalls(cbTrace') :
                 cbTrace'[i].state \notin {"Connecting", "Error"}
       /\ (HandshakePending(lws) /\ HandledEvent(lastCall', lwsTrace') = ConnectionError) =>
             /\ GetState' = "Error"
             /\ stTrace' = <<"Error">>
             /\ m_stateCallback # 0 =>
                   /\ StatesReported(cbTrace') = <<"Error">>
                   /\ cbTrace'[1].fn = m_stateCallback
                   /\ cbTrace'[1].error # << >>
                   /\ cbTrace'[1].error[1].message \in {"refused", "Connection error"}]_vars

\* the driver gave no text: the error carries the session's own message
C20_Witness ==
    /\ HandledEvent(lastCall, lwsTrace) = ConnectionError
    /\ GetState = "Error" /\ m_wsi = nullptr
    /\ StatesReported(cbTrace) = <<"Error">>
    /\ cbTrace[1].error[1].message = "Connection error"

\* a send* call that returned false
SendRefused(call) ==
    IF call.op \in {"SendText", "SendBinary"} /\ "ret" \in DOMAIN call
    THEN call.ret = FALSE
    ELSE FALSE

\* C21 (as claimed): with send* on one thread and Poll on another, the queue
\* grows only in a step taken while the state is Connected, and a send* that
\* returns false has changed nothing.
C21_AppendOnlyWhileConnected ==
    [][/\ Len(m_sendQueue') > Len(m_sendQueue) => m_state = "Connected"
       /\ SendRefused(lastCall') => UNCHANGED <<m_sendQueue, accepted, lws, m_state>>]_vars


\* What a call made from inside a callback locks first: the setters take
\* m_callbackMutex (328, 343), SendText and SendBinary take m_queueMutex
\* (276, 308); Disconnect and GetState take neither before they call SetState.
ReentrantMutexes == {"m_callbackMutex", "m_queueMutex"}

\* C22: no state callback and no message callback is invoked while the
\* callback lock or the queue lock is held, so a callback that calls
\* setStateCallback, setMessageCallback, send*, disconnect or getState on the
\* same session finds every std::mutex it needs free and completes.
C22_CallbacksOutsideLocks ==
    /\ Len(cbSeen) = Len(cbTrace)
    /\ \A i \in 1..Len(cbSeen) : cbSeen[i].held \cap ReentrantMutexes = {}

\* a Poll that invoked the message callback and a state callback
C22_Witness ==
    /\ lastCall.op = "Poll"
    /\ \E i \in 1..Len(cbTrace) : cbTrace[i].cb = "message"
    /\ m_stateCallback # 0
    /\ m_messageCallback # 0

\* the driver calls of one operation that created or destroyed a context
Created(trace) ==
    {trace[i].res : i \in {j \in CallsOf(trace, "lws_create_context") : trace[j].res # nullptr}}

Destroyed(trace) == {trace[i].ctx : i \in CallsOf(trace, "lws_context_destroy")}

\* C23 (as claimed): every context created by a connect attempt is released
\* exactly once: lws_context_destroy is only ever given a context that is
\* still unreleased, never the same one twice, and once the session is
\* destroyed no context is left unreleased.
C23_ContextReleasedOnce ==
    [][/\ Destroyed(lwsTrace') \subseteq (lws.live \cup Created(lwsTrace'))
       /\ Cardinality(CallsOf(lwsTrace', "lws_context_destroy"))
             = Cardinality(Destroyed(lwsTrace'))
       /\ lastCall'.op = "~LwsWebSocketClient" => lws'.live = {}]_vars


\* C24: the destructor, in whatever state it finds the session, hands the
\* session's context, if it has one, to lws_context_destroy before it returns
\* and makes no other driver call; afterwards the session holds no context and
\* no handle and its state is Disconnected.
C24_DestructorReleases ==
    [][lastCall'.op = "~LwsWebSocketClient" =>
         /\ lastCall'.from = m_state
         /\ m_context' = nullptr
         /\ m_wsi' = nullptr
         /\ m_state' = "Disconnected"
         /\ IF m_context # nullptr
            THEN /\ lwsTrace' = <<[fn |-> "lws_context_destroy", ctx |-> m_context]>>
                 /\ m_context \notin lws'.live
            ELSE lwsTrace' = << >> /\ lws' = lws]_vars

\* a session destroyed while Connected (the same is reached from Connecting)
C24_Witness ==
    /\ lastCall.op = "~LwsWebSocketClient"
    /\ lastCall.from = "Connected"
    /\ CallsOf(lwsTrace, "lws_context_destroy") # {}
    /\ m_context = nullptr
    /\ m_wsi = nullptr


\* the kind of frame each of the two send operations queues
KindOf(op) == IF op = "SendText" THEN "Text" ELSE "Binary"

\* C25: the message an accepted SendText or SendBinary leaves at the back of
\* the queue carries, behind its LWS_PRE padding, exactly the bytes it was
\* given (zero bytes included, none when the length is zero) and the kind of
\* the operation; and the bytes and the write protocol a writable event hands
\* to lws_write are the bytes and the kind of the accepted message it sends.
C25_BytesAndKindPreserved ==
    /\ (lastCall.op \in {"SendText", "SendBinary"} /\ lastCall = [op |-> lastCall.op, ret |-> TRUE])
          => LET msg == m_sendQueue[Len(m_sendQueue)]
                 given == accepted[Len(accepted)]
             IN  /\ Len(msg.data) = LWS_PRE + Len(given.data)
                 /\ Payload(msg) = given.data
                 /\ msg.type = KindOf(lastCall.op)
                 /\ given.type = KindOf(lastCall.op)
    /\ \A i \in CallsOf(lwsTrace, "lws_write") :
          /\ Len(written) <= Len(accepted)
          /\ lwsTrace[i].data = accepted[Len(written)].data
          /\ lwsTrace[i].wp = IF accepted[Len(written)].type = "Text"
                            THEN "LWS_WRITE_TEXT" ELSE "LWS_WRITE_BINARY"
          /\ written[Len(written)] = accepted[Len(written)]

\* the binary frame with the bytes 0 and 255 handed to lws_write
C25_Witness ==
    /\ \E i \in CallsOf(lwsTrace, "lws_write") :
          lwsTrace[i].data = <<0, 255>> /\ lwsTrace[i].wp = "LWS_WRITE_BINARY"
    /\ accepted = <<[data |-> <<0, 255>>, type |-> "Binary"]>>


\* a Poll in which the driver reports the frame f
Receive(f) == Poll("LWS_CALLBACK_CLIENT_RECEIVE", f, TRUE, 0)

\* C26: a Receive event invokes the message callback stored when it arrives,
\* once, with the bytes, the length and the kind of the frame the driver
\* reports, and invokes nothing else; with the empty callback stored it invokes
\* nothing. The stored callback is the one the last SetMessageCallback gave, so
\* one that was replaced is not called.
C26_ReceiveInvokesStored ==
    [][/\ \A f \in RxFrames :
            Receive(f) =>
              /\ m_messageCallback' = m_messageCallback
              /\ cbTrace' = IF m_messageCallback # 0
                            THEN <<[cb |-> "message", fn |-> m_messageCallback,
                                    data |-> f.data, length |-> Len(f.data),
                                    type |-> IF f.binary THEN "Binary" ELSE "Text"]>>
                            ELSE << >>
       /\ \A callback \in MessageCallbacks :
            SetMessageCallback(callback) =>
              m_messageCallback' = callback /\ cbTrace' = << >>]_vars

\* the second callback, which replaced the first or the empty one, called with
\* the binary frame
C26_Witness ==
    /\ lastCall.op = "Poll"
    /\ cbTrace = <<[cb |-> "message", fn |-> 2, data |-> <<0, 255>>, length |-> 2,
                    type |-> "Binary"]>>


\* C27 (as claimed): a Poll that handles an Established event stores the
\* event's handle in m_wsi, stores Connected, and asks the driver for a
\* writable notification on that handle.
C27_EstablishedRequestsWritable ==
    [][HandledEvent(lastCall', lwsTrace') = Established =>
         /\ m_wsi' = lwsTrace'[1].ctx
         /\ m_state' = "Connected"
         /\ \E i \in CallsOf(lwsTrace', "lws_callback_on_writable") :
               lwsTrace'[i].wsi = m_wsi'
         /\ lws'.writable]_vars


\* C28: the queue gets longer only in a SendText or SendBinary that returns
\* true, by the one message pushed at its back; it gets shorter only in a Poll
\* that handles a writable event, by the one message at its front; every other
\* step (Connect with its Cleanup on failure, Disconnect, a Poll with no event
\* or with an Established, Receive, connection-error or Closed event) leaves
\* it as it was.
C28_QueueFrame ==
    [][/\ Len(m_sendQueue') > Len(m_sendQueue) =>
            /\ lastCall' \in [op : {"SendText", "SendBinary"}, ret : {TRUE}]
            /\ Len(m_sendQueue') = Len(m_sendQueue) + 1
            /\ SubSeq(m_sendQueue', 1, Len(m_sendQueue)) = m_sendQueue
       /\ Len(m_sendQueue') < Len(m_sendQueue) =>
            /\ HandledEvent(lastCall', lwsTrace') = Writeable
            /\ m_sendQueue' = Tail(m_sendQueue)
       /\ Len(m_sendQueue') = Len(m_sendQueue) => m_sendQueue' = m_sendQueue
       /\ \/ lastCall'.op \in {"Connect", "Disconnect"}
          \/ lastCall'.op = "Poll" /\ HandledEvent(lastCall', lwsTrace') # Writeable
          => m_sendQueue' = m_sendQueue]_vars

\* a failed Connect, whose Cleanup ran, with two messages left in the queue
C28_Witness ==
    /\ lastCall = [op |-> "Connect", ret |-> FALSE]
    /\ CallsOf(lwsTrace, "lws_context_destroy") # {}
    /\ Len(m_sendQueue) = 2
    /\ Len(written) = 1


\* the requests for a writable notification among the driver calls of a trace
WritableRequests(trace) == CallsOf(trace, "lws_callback_on_writable")

\* C29 (as claimed): a Poll that handles a writable event with a message
\* queued and a handle stored pops the front message, hands it to lws_write
\* once, and requests another writable notification exactly if messages are
\* left in the queue; with the queue empty or no handle stored it writes
\* nothing, leaves the queue as it was and requests nothing.
C29_WritableHandler ==
    [][HandledEvent(lastCall', lwsTrace') = Writeable =>
         IF m_sendQueue # << >> /\ m_wsi # nullptr
         THEN /\ m_sendQueue' = Tail(m_sendQueue)
              /\ Cardinality(CallsOf(lwsTrace', "lws_write")) = 1
              /\ \A i \in CallsOf(lwsTrace', "lws_write") :
                    /\ lwsTrace'[i].wsi = m_wsi
                    /\ lwsTrace'[i].data = Payload(Head(m_sendQueue))
              /\ m_sendQueue' # << >> <=> WritableRequests(lwsTrace') # {}
              /\ m_sendQueue' # << >> => lws'.writable
         ELSE /\ CallsOf(lwsTrace', "lws_write") = {}
              /\ m_sendQueue' = m_sendQueue
              /\ WritableRequests(lwsTrace') = {}]_vars


\* the states in which the session is to hold no handle
NoHandleStates == {"Disconnected", "Error"}

\* C30 (as claimed): whenever the state is Disconnected or Error the handle
\* m_wsi is null, both after every operation and at the moment a state
\* callback is called with, and can read, such a state.
C30_HandleOnlyWhileLive ==
    /\ m_state \in NoHandleStates => m_wsi = nullptr
    /\ \A i \in 1..Len(cbSeen) :
          (cbTrace[i].cb = "state" /\ cbSeen[i].m_state \in NoHandleStates)
             => cbSeen[i].m_wsi = nullptr


\* the writes of a trace that the driver reported as failed
FailedWrites(trace) == {i \in CallsOf(trace, "lws_write") : trace[i].res < 0}

\* C31: a Poll whose writable handler saw lws_write fail stores no state,
\* invokes no callback, leaves the handle and the context as they were, and
\* returns what lws_service returned, which the failure has no part in: the
\* failure reaches nobody.
C31_WriteFailureSilent ==
    (HandledEvent(lastCall, lwsTrace) = Writeable /\ FailedWrites(lwsTrace) # {})
       => /\ stTrace = << >>
          /\ cbTrace = << >>
          /\ m_wsi # nullptr
          /\ m_context # nullptr
          /\ lastCall.res = lwsTrace[1].res
          /\ Cardinality(DOMAIN lwsTrace) = 2

\* a failed write in a Poll that returned 0, with a state callback set and the
\* session still Connected
C31_Witness ==
    /\ HandledEvent(lastCall, lwsTrace) = Writeable
    /\ FailedWrites(lwsTrace) # {}
    /\ lastCall.res = 0
    /\ m_stateCallback # 0
    /\ m_state = "Connected"


\* C32 (as claimed): every read and every write of m_messageCallback and of
\* m_stateCallback is made with m_callbackMutex held, so that none is made
\* while a setter on another thread is in the middle of assigning the same
\* member.
C32_CallbackAccessLocked ==
    \A i \in 1..Len(accTrace) :
       /\ "m_callbackMutex" \in accTrace[i].held
       /\ ~(sendT.pc = "assign" /\ sendT.slot = accTrace[i].slot)


\* C33 (as claimed): in the session built from the second definitions, an
\* operation in which a state or message callback calls a setter on its own
\* session returns: no operation is left waiting for m_callbackMutex while its
\* own thread holds it.
C33_ReentrantSetterReturns == ~Stuck


\* the state the state callback was last called with by an operation
LastReported(trace) ==
    trace[CHOOSE i \in StateCalls(trace) : \A j \in StateCalls(trace) : j <= i].state

\* C34 (as claimed): with a state callback set, an operation that stored a
\* state has, when it returns, last called the callback with the state that
\* GetState then returns; so between operations GetState is the state most
\* recently reported.
C34_StateMatchesLastReport ==
    (m_stateCallback # 0 /\ stTrace # << >>)
       => /\ StateCalls(cbTrace) # {}
          /\ LastReported(cbTrace) = GetState


\* C35 (as claimed): whenever the state is Connected, a handle is stored and
\* the queue is not empty, the driver has been asked for a writable event it
\* has not raised yet.
C35_WritablePending ==
    (m_state = "Connected" /\ m_wsi # nullptr /\ m_sendQueue # << >>) => lws.writable


\* C36 (as claimed): every message handed to lws_write was accepted on the
\* connection it is written on: with each text stamped with the number of
\* the connection it was accepted on, the stamp written is the number of the
\* connection in being.
C36_WrittenOnOwnConnection ==
    \A i \in CallsOf(lwsTrace, "lws_write") : lwsTrace[i].data = <<lws.created>>


\* C37 (as claimed): once Disconnect has been called on a session that was not
\* Disconnected, the state is Disconnecting until an event or a Connect moves
\* it, and no step taken in Disconnecting stores Connected: Connected is
\* reached again only through a Connect that is accepted, which needs
\* Disconnected first.
C37_NoConnectedAfterDisconnect ==
    [][m_state = "Disconnecting" =>
          /\ m_state' # "Connected"
          /\ \A i \in DOMAIN stTrace' : stTrace'[i] # "Connected"]_vars


\* the session has just been put in Error by a connection-error event
ErrorByEvent ==
    m_state = "Error" /\ HandledEvent(lastCall, lwsTrace) = ConnectionError

\* C38 (as claimed): a session put in Error by a connection-error event, whose
\* caller then calls Disconnect and keeps polling, gets back to Disconnected,
\* where a Connect can be accepted.
C38_ErrorRecovers == ErrorByEvent ~> (m_state = "Disconnected")

\* the requests made of the driver on a handle during the last step
HandleRequests ==
    {i \in 1..Len(lwsTrace) :
        lwsTrace[i].fn \in {"lws_callback_on_writable", "lws_close_reason"}}

\* C39 (as claimed): whatever way SendText, SendBinary or Disconnect on one
\* thread interleave with Poll on another, a writable request or a close
\* request is made only on the handle m_wsi holds, never on one that a Closed
\* or connection-error event has cleared.
C39_NoRequestOnClearedHandle ==
    \A i \in HandleRequests : lwsTrace[i].wsi # nullptr /\ lwsTrace[i].wsi = m_wsi

\* C40 (as claimed): Disconnect never changes Disconnected into Disconnecting;
\* however a Disconnect interleaves with a Closed event handled by a Poll on
\* another thread, a state that is Disconnected stays so until a Connect.
C40_DisconnectedStays ==
    [][m_state = "Disconnected" /\ m_state' # "Disconnected" => lastCall'.op = "Connect"]_vars

====
